---- MODULE Spec2Model ----
(***************************************************************************)
(* A model of upl's request handlers (src/main.go): listFiles, uploadFiles *)
(* and listCurrentDir acting on a filesystem that holds the store          *)
(* directory.  Paths and file names are sequences of one-character         *)
(* strings, file contents are sequences of bytes.                          *)
(***************************************************************************)
EXTENDS Integers, Sequences, FiniteSets, TLC

VARIABLES
    fs,        \* the filesystem
    pc,        \* per handler: where it is in listFiles / uploadFiles
    req,       \* per handler: the request it was dispatched
    idx,       \* per handler: index of the part the upload loop is at
    src,       \* per handler: the bytes of the opened part
    dst,       \* per handler: the path the destination was created at
    off,       \* per handler: the offset of the destination descriptor
    resp,      \* per handler: what the handler returned
    logged,    \* per handler: listCurrentDir logged a read failure
    model,     \* history: the store as whole-part uploads would leave it
    sent,      \* history, per handler: the bytes of the part it last copied
    raced,     \* history: a destination was created while another was being copied
    san        \* the sanitisation step applied to one filename

vars == <<fs, pc, req, idx, src, dst, off, resp, logged, model, sent, raced, san>>

hist == <<model, sent, raced>>

(***************************************************************************)
(* Bounds of the model.                                                    *)
(***************************************************************************)
MaxParts == 2
MaxDataLen == 2
MaxNameLen == 7

Bytes == {1, 2}
Alphabet == {"/", ".", "a"}

Separator == "/"

StoreDir == <<"f", "i", "l", "e", "s">>

None == <<"none">>

(***************************************************************************)
(* path/filepath (Unix): Clean, Base, Join, as the Go library computes     *)
(* them.                                                                   *)
(***************************************************************************)
IsPathSeparator(c) == c = Separator

RECURSIVE Backtrack(_, _, _)
Backtrack(out, w, dotdot) ==
    IF w > dotdot /\ ~IsPathSeparator(out[w + 1])
    THEN Backtrack(out, w - 1, dotdot)
    ELSE SubSeq(out, 1, w)

RECURSIVE ElementEnd(_, _)
ElementEnd(path, r) ==
    IF r <= Len(path) /\ ~IsPathSeparator(path[r])
    THEN ElementEnd(path, r + 1)
    ELSE r

RECURSIVE CleanLoop(_, _, _, _, _)
CleanLoop(path, r, out, dotdot, rooted) ==
    LET n == Len(path) IN
    IF r > n THEN out
    ELSE IF IsPathSeparator(path[r])
    THEN CleanLoop(path, r + 1, out, dotdot, rooted)
    ELSE IF path[r] = "." /\ (r = n \/ IsPathSeparator(path[r + 1]))
    THEN CleanLoop(path, r + 1, out, dotdot, rooted)
    ELSE IF path[r] = "." /\ path[r + 1] = "."
            /\ (r + 1 = n \/ IsPathSeparator(path[r + 2]))
    THEN IF Len(out) > dotdot
         THEN CleanLoop(path, r + 2, Backtrack(out, Len(out) - 1, dotdot),
                        dotdot, rooted)
         ELSE IF ~rooted
         THEN LET o == (IF Len(out) > 0 THEN Append(out, Separator) ELSE out)
                        \o <<".", ".">>
              IN CleanLoop(path, r + 2, o, Len(o), rooted)
         ELSE CleanLoop(path, r + 2, out, dotdot, rooted)
    ELSE LET o == IF (rooted /\ Len(out) # 1) \/ (~rooted /\ Len(out) # 0)
                  THEN Append(out, Separator) ELSE out
             e == ElementEnd(path, r)
         IN CleanLoop(path, e, o \o SubSeq(path, r, e - 1), dotdot, rooted)

Clean(path) ==
    IF path = <<>> THEN <<".">>
    ELSE LET rooted == IsPathSeparator(path[1])
             out == IF rooted
                    THEN CleanLoop(path, 2, <<Separator>>, 1, TRUE)
                    ELSE CleanLoop(path, 1, <<>>, 0, FALSE)
         IN IF out = <<>> THEN <<".">> ELSE out

RECURSIVE StripTrailing(_)
StripTrailing(path) ==
    IF Len(path) > 0 /\ IsPathSeparator(path[Len(path)])
    THEN StripTrailing(SubSeq(path, 1, Len(path) - 1))
    ELSE path

RECURSIVE LastSep(_, _)
LastSep(path, i) ==
    IF i >= 1 /\ ~IsPathSeparator(path[i]) THEN LastSep(path, i - 1) ELSE i

Base(path) ==
    IF path = <<>> THEN <<".">>
    ELSE LET p == StripTrailing(path)
             i == LastSep(p, Len(p))
             q == IF i >= 1 THEN SubSeq(p, i + 1, Len(p)) ELSE p
         IN IF q = <<>> THEN <<Separator>> ELSE q

Join(dir, name) ==
    IF dir = <<>>
    THEN (IF name = <<>> THEN <<>> ELSE Clean(name))
    ELSE Clean(dir \o <<Separator>> \o name)

(***************************************************************************)
(* The filesystem: a function from clean paths to nodes.  A directory has  *)
(* kind "dir", a regular file has kind "file" and its bytes in data.       *)
(***************************************************************************)
DirNode == [kind |-> "dir", data |-> <<>>]

FileNode(d) == [kind |-> "file", data |-> d]

Child(dir, name) == dir \o <<Separator>> \o name

IsDir(f, path) == path \in DOMAIN f /\ f[path].kind = "dir"

\* The lexical parent of a clean path: the kernel's lookup of its directory.
Parent(path) ==
    LET i == LastSep(path, Len(path))
    IN IF i = 0 THEN (IF path = <<".", ".">> THEN <<".", ".">> ELSE <<".">>)
       ELSE IF i = 1 THEN <<Separator>>
       ELSE SubSeq(path, 1, i - 1)

\* os.Create: open with O_RDWR|O_CREATE|O_TRUNC.  "EISDIR" when the path is a
\* directory, "ENOENT" when its directory does not exist.
CreateErr(f, path) ==
    IF IsDir(f, path) THEN "EISDIR"
    ELSE IF path \in DOMAIN f THEN ""
    ELSE IF IsDir(f, Parent(path)) THEN ""
    ELSE "ENOENT"

\* A creation that opens with O_CREATE alone and does not truncate.
CreateNoTrunc(f, path) ==
    IF path \in DOMAIN f
    THEN f
    ELSE [q \in DOMAIN f \cup {path} |-> IF q = path THEN FileNode(<<>>) ELSE f[q]]

CreateFile(f, path) ==
    IF path \in DOMAIN f
    THEN [f EXCEPT ![path] = FileNode(<<>>)]
    ELSE [q \in DOMAIN f \cup {path} |-> IF q = path THEN FileNode(<<>>) ELSE f[q]]

\* A write on a descriptor opened with O_APPEND.
WriteAtAppend(old, o, chunk) == old \o chunk

\* write(2) of chunk at offset o of a file holding old: a gap left by a
\* truncation under the descriptor reads as zero bytes.
WriteAt(old, o, chunk) ==
    LET end == o + Len(chunk)
        n == IF end > Len(old) THEN end ELSE Len(old)
    IN [i \in 1..n |->
          IF i > o /\ i <= end THEN chunk[i - o]
          ELSE IF i <= Len(old) THEN old[i]
          ELSE 0]

WriteFile(f, path, o, chunk) ==
    [f EXCEPT ![path] = FileNode(WriteAt(@.data, o, chunk))]

\* The names of the entries directly under dir.
Entries(f, dir) ==
    { SubSeq(q, Len(dir) + 2, Len(q)) :
        q \in { x \in DOMAIN f :
                  /\ Len(x) > Len(dir) + 1
                  /\ SubSeq(x, 1, Len(dir) + 1) = dir \o <<Separator>>
                  /\ LastSep(x, Len(x)) = Len(dir) + 1 } }

Ord(c) ==
    CASE c = "." -> 46
      [] c = "/" -> 47
      [] c = "a" -> 97
      [] c = "b" -> 98
      [] c = "d" -> 100
      [] c = "e" -> 101
      [] c = "f" -> 102
      [] c = "i" -> 105
      [] c = "l" -> 108
      [] c = "s" -> 115

RECURSIVE NameLess(_, _)
NameLess(x, y) ==
    IF y = <<>> THEN FALSE
    ELSE IF x = <<>> THEN TRUE
    ELSE IF Ord(Head(x)) # Ord(Head(y)) THEN Ord(Head(x)) < Ord(Head(y))
    ELSE NameLess(Tail(x), Tail(y))

RECURSIVE SortNames(_)
SortNames(S) ==
    IF S = {} THEN <<>>
    ELSE LET m == CHOOSE x \in S : \A y \in S \ {x} : NameLess(x, y)
         IN <<m>> \o SortNames(S \ {m})

\* A directory read that skips subdirectories.
ReadDirFilesOnly(f, dir) ==
    SortNames({ n \in Entries(f, dir) : f[Child(dir, n)].kind = "file" })

\* os.ReadDir: the directory's entries sorted by filename.
ReadDir(f, dir) == SortNames(Entries(f, dir))

(***************************************************************************)
(* Requests.  A GET lists; a POST carries a multipart form: the file parts *)
(* under field "upload", each with a client-supplied filename.  The bytes  *)
(* of a part are read through the stream file.Open returns.                *)
(***************************************************************************)
AllProcs == {1, 2}

RawNames ==
    { <<"a">>, <<".", ".", "/", "b">>, <<".">> }

ConcNames ==
    { <<"a">>, <<".", ".", "/", "a">>, <<".", ".">> }

RECURSIVE SeqsUpTo(_, _)
SeqsUpTo(S, n) ==
    IF n = 0 THEN {<<>>}
    ELSE LET shorter == SeqsUpTo(S, n - 1)
         IN shorter \cup { Append(s, x) : s \in shorter, x \in S }

Contents == SeqsUpTo(Bytes, MaxDataLen)

Get == [method |-> "GET", malformed |-> FALSE, files |-> <<>>]

Post(files) == [method |-> "POST", malformed |-> FALSE, files |-> files]

Malformed == [method |-> "POST", malformed |-> TRUE, files |-> <<>>]

Requests ==
    {Get, Malformed} \cup { Post(files) : files \in SeqsUpTo(RawNames, MaxParts) }

SinglePartRequests ==
    {Get} \cup { Post(<<name>>) : name \in ConcNames }

(***************************************************************************)
(* What a handler hands back to the framework: the error it returns and,   *)
(* when it rendered, the status and the page model given to the template.  *)
(***************************************************************************)
StatusOK == 200

NoResponse ==
    [err |-> "", rendered |-> FALSE, status |-> 0, Title |-> <<>>, Files |-> <<>>]

ReturnErr(e) == [NoResponse EXCEPT !.err = e]

Render(code, v) ==
    [err |-> "", rendered |-> TRUE, status |-> code,
     Title |-> v.Title, Files |-> v.Files]

\* A listing loop that starts at the second entry.
listCurrentDirSkipFirst(f, dir, ok) ==
    IF ~ok \/ ReadDir(f, dir) = <<>> THEN <<>> ELSE Tail(ReadDir(f, dir))

\* listCurrentDir: ok is whether os.ReadDir succeeded.
listCurrentDir(f, dir, ok) ==
    IF ~ok THEN <<>> ELSE ReadDir(f, dir)

\* A sanitisation that cleans the name and keeps its directories.
SanitizeNoBase(name) ==
    LET filename == Clean(name)
    IN IF filename = <<".">> \/ filename = <<Separator>> THEN None ELSE filename

\* A sanitisation that never rejects.
SanitizeNoCheck(name) == Base(Clean(name))

\* The sanitisation step of uploadFiles: None when the name is rejected.
Sanitize(name) ==
    LET filename == Base(Clean(name))
    IN IF filename = <<".">> \/ filename = <<Separator>> THEN None ELSE filename

(***************************************************************************)
(* Initial state: the store directory exists (main creates it when it is   *)
(* missing) and holds one subdirectory; no request is being handled.       *)
(***************************************************************************)
InitFs ==
    [q \in {<<".">>, <<".", ".">>, <<Separator>>, StoreDir, Child(StoreDir, <<"d">>)}
       |-> DirNode]

\* The store directory's entries, by name.
Store(f) == [n \in Entries(f, StoreDir) |-> f[Child(StoreDir, n)]]

NoSan ==
    [done |-> FALSE, name |-> <<>>, clean |-> <<>>, rejected |-> FALSE, path |-> <<>>]

Init ==
    /\ fs = InitFs
    /\ pc = [p \in AllProcs |-> "idle"]
    /\ req = [p \in AllProcs |-> Get]
    /\ idx = [p \in AllProcs |-> 0]
    /\ src = [p \in AllProcs |-> <<>>]
    /\ dst = [p \in AllProcs |-> None]
    /\ off = [p \in AllProcs |-> 0]
    /\ resp = [p \in AllProcs |-> NoResponse]
    /\ logged = [p \in AllProcs |-> FALSE]
    /\ model = Store(InitFs)
    /\ sent = [p \in AllProcs |-> <<>>]
    /\ raced = FALSE
    /\ san = NoSan

\* The handler returns: the deferred Close calls release both streams.
Return(p, r) ==
    /\ resp' = [resp EXCEPT ![p] = r]
    /\ pc' = [pc EXCEPT ![p] = "done"]
    /\ src' = [src EXCEPT ![p] = <<>>]
    /\ dst' = [dst EXCEPT ![p] = None]
    /\ off' = [off EXCEPT ![p] = 0]

\* The router dispatches a request of R to a handler: GET / to listFiles,
\* POST / to uploadFiles.
Dispatch(p, R) ==
    /\ pc[p] \in {"idle", "done"}
    /\ \E r \in R :
         /\ req' = [req EXCEPT ![p] = r]
         /\ pc' = [pc EXCEPT ![p] = IF r.method = "GET" THEN "list" ELSE "form"]
    /\ idx' = [idx EXCEPT ![p] = 0]
    /\ resp' = [resp EXCEPT ![p] = NoResponse]
    /\ logged' = [logged EXCEPT ![p] = FALSE]
    /\ UNCHANGED <<fs, src, dst, off, san>>

\* A form parser that takes a form without file parts for an error.
ParseFormRequireFiles(p) ==
    /\ pc[p] = "form"
    /\ IF req[p].malformed \/ req[p].files = <<>>
       THEN /\ Return(p, ReturnErr("malformed"))
            /\ UNCHANGED idx
       ELSE /\ idx' = [idx EXCEPT ![p] = 1]
            /\ pc' = [pc EXCEPT ![p] = "part"]
            /\ UNCHANGED <<resp, src, dst, off>>
    /\ UNCHANGED <<fs, req, logged, san>>

\* uploadFiles, lines 240-244: parse the form and take the "upload" parts.
ParseForm(p) ==
    /\ pc[p] = "form"
    /\ IF req[p].malformed
       THEN /\ Return(p, ReturnErr("malformed"))
            /\ UNCHANGED idx
       ELSE /\ idx' = [idx EXCEPT ![p] = 1]
            /\ pc' = [pc EXCEPT ![p] = "part"]
            /\ UNCHANGED <<resp, src, dst, off>>
    /\ UNCHANGED <<fs, req, logged, san>>

\* uploadFiles, lines 246-265: one iteration of the loop up to the creation of
\* the destination; after the last part the loop ends and line 272 is next.
\* openOk is whether file.Open succeeded, data the bytes its stream holds,
\* createOk whether os.Create is free of errors that the path does not decide
\* (permissions, a full disk).
OpenPart(p, openOk, createOk, data) ==
    /\ pc[p] = "part"
    /\ IF idx[p] > Len(req[p].files)
       THEN /\ pc' = [pc EXCEPT ![p] = "list"]
            /\ UNCHANGED <<fs, resp, src, dst, off>>
       ELSE LET file == req[p].files[idx[p]]
                filename == Sanitize(file)
                path == Join(StoreDir, filename)
            IN IF ~openOk
               THEN Return(p, ReturnErr("open")) /\ UNCHANGED fs
               ELSE IF filename = None
               THEN Return(p, ReturnErr("invalid filename")) /\ UNCHANGED fs
               ELSE IF CreateErr(fs, path) # ""
               THEN Return(p, ReturnErr(CreateErr(fs, path))) /\ UNCHANGED fs
               ELSE IF ~createOk
               THEN Return(p, ReturnErr("EACCES")) /\ UNCHANGED fs
               ELSE /\ fs' = CreateFile(fs, path)
                    /\ src' = [src EXCEPT ![p] = data]
                    /\ dst' = [dst EXCEPT ![p] = path]
                    /\ off' = [off EXCEPT ![p] = 0]
                    /\ pc' = [pc EXCEPT ![p] = "copy"]
                    /\ UNCHANGED resp
    /\ UNCHANGED <<req, idx, logged, san>>

\* uploadFiles, line 267: io.Copy moves the part to the destination in one or
\* more writes at the descriptor's offset; n is the size of this write.
CopyChunk(p, n) ==
    /\ pc[p] = "copy"
    /\ off[p] < Len(src[p])
    /\ n <= Len(src[p]) - off[p]
    /\ fs' = WriteFile(fs, dst[p], off[p], SubSeq(src[p], off[p] + 1, off[p] + n))
    /\ off' = [off EXCEPT ![p] = off[p] + n]
    /\ UNCHANGED <<pc, idx, resp, src, dst, req, logged, san>>

\* uploadFiles, lines 267-269: a read or a write of io.Copy fails, and the
\* handler returns nil.
CopyFail(p) ==
    /\ pc[p] = "copy"
    /\ off[p] < Len(src[p])
    /\ Return(p, NoResponse)
    /\ UNCHANGED <<fs, idx, req, logged, san>>

\* uploadFiles, lines 267-270: io.Copy reaches the end of the part and the
\* loop goes on to the next one.
CopyEnd(p) ==
    /\ pc[p] = "copy"
    /\ off[p] = Len(src[p])
    /\ idx' = [idx EXCEPT ![p] = idx[p] + 1]
    /\ pc' = [pc EXCEPT ![p] = "part"]
    /\ UNCHANGED <<fs, src, dst, off, resp, req, logged, san>>

\* A list handler that fails the request when the directory cannot be read.
listFilesFailing(p, readOk) ==
    /\ pc[p] = "list"
    /\ LET v == [Title |-> <<"Uploader">>,
                 Files |-> listCurrentDir(fs, StoreDir, readOk)]
       IN Return(p, IF readOk THEN Render(StatusOK, v) ELSE ReturnErr("readdir"))
    /\ logged' = [logged EXCEPT ![p] = ~readOk]
    /\ UNCHANGED <<fs, req, idx, san>>

\* listFiles: build the page model from listCurrentDir and render it.
\* readOk is whether os.ReadDir succeeded; when it fails listCurrentDir logs.
listFiles(p, readOk) ==
    /\ pc[p] = "list"
    /\ LET v == [Title |-> <<"Uploader">>,
                 Files |-> listCurrentDir(fs, StoreDir, readOk)]
       IN Return(p, Render(StatusOK, v))
    /\ logged' = [logged EXCEPT ![p] = ~readOk]
    /\ UNCHANGED <<fs, req, idx, san>>

(***************************************************************************)
(* History variables.  model is the store as it would be if every part     *)
(* that was copied to its end had replaced the entry of its sanitised name *)
(* in one step; a part whose copy failed leaves in it what the file holds. *)
(***************************************************************************)
Put(m, n, node) ==
    [x \in DOMAIN m \cup {n} |-> IF x = n THEN node ELSE m[x]]

HistCopy(p) ==
    LET n == Base(Clean(req[p].files[idx[p]]))
    IN /\ model' = IF pc'[p] = "part" THEN Put(model, n, FileNode(src[p]))
                   ELSE IF pc'[p] = "done" THEN Put(model, n, fs[dst[p]])
                   ELSE model
       /\ UNCHANGED <<sent, raced>>

HistSent(p) ==
    /\ sent' = [sent EXCEPT ![p] = src[p]]
    /\ UNCHANGED <<model, raced>>

HistRace(p) ==
    /\ raced' = (raced \/ (pc'[p] = "copy" /\ \E q \in AllProcs \ {p} : pc[q] = "copy"))
    /\ UNCHANGED <<model, sent>>

\* What file.Open and os.Create may do to a part: succeed on some bytes, or
\* fail.
Opens ==
    [openOk : {TRUE}, createOk : {TRUE}, data : Contents]
      \cup [openOk : {FALSE}, createOk : {TRUE}, data : {<<>>}]
      \cup [openOk : {TRUE}, createOk : {FALSE}, data : {<<>>}]

\* One handler at a time: requests do not overlap.
Next ==
    \/ Dispatch(1, Requests) /\ UNCHANGED hist
    \/ ParseForm(1) /\ UNCHANGED hist
    \/ \E o \in Opens :
         OpenPart(1, o.openOk, o.createOk, o.data) /\ UNCHANGED hist
    \/ \E n \in 1..MaxDataLen : CopyChunk(1, n) /\ UNCHANGED hist
    \/ CopyFail(1) /\ HistCopy(1)
    \/ CopyEnd(1) /\ HistCopy(1)
    \/ \E readOk \in BOOLEAN : listFiles(1, readOk) /\ UNCHANGED hist

Spec == Init /\ [][Next]_vars

\* The server runs handlers concurrently, here each on a request of one part.
NextConc ==
    \E p \in AllProcs :
        \/ Dispatch(p, SinglePartRequests) /\ sent' = [sent EXCEPT ![p] = <<>>]
                                           /\ UNCHANGED <<model, raced>>
        \/ ParseForm(p) /\ UNCHANGED hist
        \/ \E o \in Opens :
             OpenPart(p, o.openOk, o.createOk, o.data) /\ HistRace(p)
        \/ \E n \in 1..MaxDataLen : CopyChunk(p, n) /\ UNCHANGED hist
        \/ CopyFail(p) /\ UNCHANGED hist
        \/ CopyEnd(p) /\ HistSent(p)
        \/ \E readOk \in BOOLEAN : listFiles(p, readOk) /\ UNCHANGED hist

SpecConc == Init /\ [][NextConc]_vars

(***************************************************************************)
(* The sanitisation step on its own, applied to every filename over        *)
(* Alphabet of at most MaxNameLen characters.                              *)
(***************************************************************************)
SanitizeStep(name) ==
    /\ ~san.done
    /\ LET filename == Sanitize(name)
       IN san' = [done |-> TRUE, name |-> name, clean |-> Clean(name),
                  rejected |-> filename = None,
                  path |-> IF filename = None THEN <<>> ELSE Join(StoreDir, filename)]
    /\ UNCHANGED <<fs, pc, req, idx, src, dst, off, resp, logged, hist>>

SanitizeReset ==
    /\ san.done
    /\ san' = NoSan
    /\ UNCHANGED <<fs, pc, req, idx, src, dst, off, resp, logged, hist>>

NextSan ==
    \/ \E name \in SeqsUpTo(Alphabet, MaxNameLen) : SanitizeStep(name)
    \/ SanitizeReset

SpecSan == Init /\ [][NextSan]_vars

(***************************************************************************)
(* Properties.                                                             *)
(***************************************************************************)
\* path names a direct child of the store directory.
InsideStore(path) ==
    /\ Len(path) > Len(StoreDir) + 1
    /\ SubSeq(path, 1, Len(StoreDir) + 1) = StoreDir \o <<Separator>>
    /\ LET name == SubSeq(path, Len(StoreDir) + 2, Len(path))
       IN /\ \A i \in 1..Len(name) : name[i] # Separator
          /\ name # <<".">>
          /\ name # <<".", ".">>

StorePath(n) == StoreDir \o <<Separator>> \o n

Listed(p) == { resp[p].Files[i] : i \in 1..Len(resp[p].Files) }

Quiescent == pc[1] \in {"idle", "done"}

\* C1: whatever the filenames and the interleaving, every regular file that
\* exists, and every destination a handler has open, is a direct child of the
\* store directory, and the directories there were are still directories.
C1_WritesStayInStore ==
    /\ \A q \in DOMAIN fs : fs[q].kind = "file" => InsideStore(q)
    /\ \A q \in DOMAIN InitFs : q \in DOMAIN fs /\ fs[q] = InitFs[q]
    /\ \A p \in AllProcs : dst[p] # None => InsideStore(dst[p])

C1_Witness ==
    \E p \in AllProcs, q \in AllProcs :
        /\ pc[p] = "done" /\ req[p] = Post(<< <<".", ".", "/", "a">> >>)
        /\ resp[p].rendered
        /\ StorePath(<<"a">>) \in DOMAIN fs
        /\ fs[StorePath(<<"a">>)].data = <<1, 2>>
        /\ pc[q] = "done" /\ req[q] = Post(<< <<".", ".">> >>)
        /\ resp[q].err = "EISDIR"

\* C2: the sanitisation step either rejects a filename or yields a basename
\* whose join with the store directory is a direct child of the store
\* directory.
C2_SanitizedInsideStore ==
    san.done => (san.rejected \/ InsideStore(san.path))

\* C3: when no request is being handled, every entry of the store holds
\* exactly the bytes of the most recent part uploaded under its name (model
\* is the store those parts leave when each replaces its entry whole).
C3_StoreHoldsLatestUpload ==
    Quiescent => Store(fs) = model

C3_Witness ==
    /\ pc[1] = "done" /\ req[1] = Post(<< <<"a">>, <<"a">> >>)
    /\ resp[1].rendered
    /\ fs[StorePath(<<"a">>)].data = <<2>>
    /\ model[<<"a">>].data = <<2>>

\* C4: when an upload of k >= 1 parts has gone through all k without error,
\* the store holds an entry for the basename of each part and the handler has
\* rendered the listing, which names each of them when the directory was
\* read; every listing read without error names every entry uploaded so far.
C4_AllPartsListed ==
    /\ (/\ pc[1] = "done" /\ req[1].method = "POST"
        /\ Len(req[1].files) >= 1
        /\ idx[1] = Len(req[1].files) + 1) =>
           /\ resp[1].err = "" /\ resp[1].rendered
           /\ \A i \in 1..Len(req[1].files) :
                /\ Base(Clean(req[1].files[i])) \in Entries(fs, StoreDir)
                /\ ~logged[1] => Base(Clean(req[1].files[i])) \in Listed(1)
    /\ (pc[1] = "done" /\ resp[1].rendered /\ ~logged[1]) =>
           DOMAIN model \subseteq Listed(1)

C4_Witness ==
    /\ pc[1] = "done"
    /\ req[1] = Post(<< <<"a">>, <<".", ".", "/", "b">> >>)
    /\ resp[1].rendered /\ ~logged[1]
    /\ resp[1].Files = << <<"a">>, <<"b">>, <<"d">> >>

EmptyUpload == req[1] = Post(<<>>)

EmptyUploadListed ==
    (pc[1] = "done" /\ EmptyUpload) =>
        /\ resp[1].err = "" /\ resp[1].rendered /\ resp[1].status = StatusOK
        /\ ~logged[1] => Listed(1) = Entries(fs, StoreDir)

\* C5: an upload whose form has no part under "upload" changes nothing in the
\* filesystem at any step and returns the rendered listing with no error.
C5_EmptyUploadIsNoOp ==
    /\ []EmptyUploadListed
    /\ [][(EmptyUpload /\ pc[1] \in {"form", "part", "list"}) => fs' = fs]_vars

C5_Witness ==
    /\ pc[1] = "done" /\ EmptyUpload
    /\ resp[1].rendered
    /\ resp[1].Files = << <<"a">>, <<"d">> >>

StoreNames ==
    { SubSeq(q, Len(StoreDir) + 2, Len(q)) : q \in { x \in DOMAIN fs : InsideStore(x) } }

PageModelExact ==
    (pc[1] = "done" /\ resp[1].rendered /\ ~logged[1]) =>
        /\ resp[1].Title = <<"Uploader">>
        /\ Listed(1) = StoreNames
        /\ Len(resp[1].Files) = Cardinality(StoreNames)

\* C6: a listing whose directory read succeeded has title "Uploader" and names
\* exactly the N entries of the store directory, files and subdirectories,
\* each once; the list handler's step leaves the filesystem as it was.
C6_ListsExactlyEntries ==
    /\ []PageModelExact
    /\ [][pc[1] = "list" => fs' = fs]_vars

C6_Witness ==
    /\ pc[1] = "done" /\ req[1] = Get
    /\ resp[1].rendered /\ ~logged[1]
    /\ Len(resp[1].Files) = 3
    /\ fs[StorePath(<<"a">>)].kind = "file"
    /\ fs[StorePath(<<"d">>)].kind = "dir"

\* C7: when the directory read fails, the list handler returns no error and
\* renders status 200 with an empty file sequence, also at the end of an
\* upload.
C7_ReadFailureListsNothing ==
    (pc[1] = "done" /\ logged[1]) =>
        /\ resp[1].err = ""
        /\ resp[1].rendered
        /\ resp[1].status = StatusOK
        /\ resp[1].Files = <<>>

C7_Witness ==
    /\ pc[1] = "done" /\ logged[1]
    /\ req[1] = Post(<< <<"a">> >>)
    /\ StorePath(<<"a">>) \in DOMAIN fs
    /\ resp[1].rendered /\ resp[1].Files = <<>>

\* Both handlers have finished an upload of one part under the same basename,
\* each copied to its end and answered with the listing.
BothUploaded ==
    /\ \A p \in AllProcs :
         /\ pc[p] = "done"
         /\ req[p].method = "POST" /\ Len(req[p].files) = 1
         /\ resp[p].rendered
    /\ Base(Clean(req[1].files[1])) = Base(Clean(req[2].files[1]))

Stored == fs[StorePath(Base(Clean(req[1].files[1])))].data

\* C8 as stated: after two concurrent uploads of the same name the file holds
\* the complete content of exactly one of them.
C8_LastWriterWins ==
    BothUploaded => Stored \in {sent[1], sent[2]}

\* C8 amended: the file is no longer than the longer upload and each of its
\* bytes is the byte one of the uploads has at that offset, or the zero of a
\* gap a truncation left; it is the complete content of one upload when no
\* destination was created while the other handler was copying.
C8_LastWriterWinsPerByte ==
    BothUploaded =>
        /\ Len(Stored) <= Len(sent[1]) \/ Len(Stored) <= Len(sent[2])
        /\ \A i \in 1..Len(Stored) :
             \/ Stored[i] = 0
             \/ \E p \in AllProcs : i <= Len(sent[p]) /\ Stored[i] = sent[p][i]
        /\ ~raced => Stored \in {sent[1], sent[2]}

C8_Witness ==
    /\ BothUploaded /\ raced
    /\ sent[1] = <<1, 1>> /\ sent[2] = <<2>>
    /\ Stored = <<2, 1>>

Degenerate(name) == Base(Clean(name)) \in {<<".">>, <<Separator>>}

\* C9: when the handler has returned at a part whose filename sanitisation
\* rejects, it returned the invalid-filename error without rendering, and the
\* store is the one the parts before it leave.
C9_RejectedPartStops ==
    (/\ pc[1] = "done" /\ req[1].method = "POST"
     /\ idx[1] \in 1..Len(req[1].files)
     /\ Degenerate(req[1].files[idx[1]])
     /\ resp[1].err # "open") =>
        /\ resp[1].err = "invalid filename"
        /\ ~resp[1].rendered
        /\ Store(fs) = model

C9_Witness ==
    /\ pc[1] = "done" /\ req[1] = Post(<< <<"a">>, <<".">> >>)
    /\ idx[1] = 2
    /\ resp[1].err = "invalid filename"
    /\ fs[StorePath(<<"a">>)].data = <<1, 2>>

\* C10: an upload whose handler returns no error has gone through all its
\* parts and returns the rendered listing of the store as it then stands.
C10_SuccessReturnsListing ==
    (pc[1] = "done" /\ req[1].method = "POST" /\ resp[1].err = "") =>
        /\ resp[1].rendered
        /\ idx[1] = Len(req[1].files) + 1
        /\ resp[1].Files = IF logged[1] THEN <<>> ELSE ReadDir(fs, StoreDir)

====
